---- MODULE Spec2Model ----
(***************************************************************************)
(* Model of src/main.py: the WAV framer create_wav_header, the uploader    *)
(* upload_to_gcs, the analyzer analyze_audio_with_hume and the POST /audio *)
(* handler handle_audio_stream.                                            *)
(*                                                                         *)
(* Python integers are unbounded, and the header fields are 4 bytes wide,  *)
(* so the interesting values lie around 2^32, beyond the integers TLC      *)
(* computes with.  An integer of the program is therefore a pair of 16-bit *)
(* limbs [hi, lo] standing for hi * 65536 + lo (hi is not bounded).        *)
(***************************************************************************)
EXTENDS Integers, Sequences, FiniteSets, TLC

VARIABLES env, files, clock, req, frame, scratch

vars == <<env, files, clock, req, frame, scratch>>

---------------------------------------------------------------------------
(* Bounds of the model *)

\* number of request slots of the concurrent specification
NumReq == 2
\* the clock read by datetime.utcnow() takes the values 0..MaxClock
MaxClock == 1
\* how far around each edge (0 and the 4-byte limit) the framer's inputs go
EdgeSpan == 3
\* how many times in a row the release step is run on one path
MaxReleases == 2

---------------------------------------------------------------------------
(* Wide integers *)

\* a limb is two bytes
Limb == 256 * 256

WInt(n) == [hi |-> n \div Limb, lo |-> n % Limb]

WAdd(w, n) ==
    LET s == w.lo + n
    IN  [hi |-> w.hi + (s \div Limb), lo |-> s % Limb]

WSub(w, n) ==
    IF w.lo >= n THEN [hi |-> w.hi, lo |-> w.lo - n]
                 ELSE [hi |-> w.hi - 1, lo |-> w.lo + Limb - n]

WMul(w, k) ==
    LET p == w.lo * k
    IN  [hi |-> w.hi * k + (p \div Limb), lo |-> p % Limb]

\* floor division by a small positive k
WDiv(w, k) ==
    LET r == w.hi % k
    IN  [hi |-> w.hi \div k, lo |-> (r * Limb + w.lo) \div k]

WIsZero(w) == w.hi = 0 /\ w.lo = 0

WLess(a, b) == a.hi < b.hi \/ (a.hi = b.hi /\ a.lo < b.lo)

\* 2^32 and 2^31 as wide integers
Two32 == [hi |-> Limb, lo |-> 0]
Two31 == [hi |-> Limb \div 2, lo |-> 0]

---------------------------------------------------------------------------
(* int.to_bytes(length, 'little') *)

\* the i-th byte (from 0, least significant first) of a wide integer
ByteAt(w, i) ==
    CASE i = 0 -> w.lo % 256
      [] i = 1 -> w.lo \div 256
      [] i = 2 -> w.hi % 256
      [] i = 3 -> (w.hi \div 256) % 256
      [] OTHER -> 0

\* to_bytes raises OverflowError when the value needs more than n bytes
Fits(w, n) ==
    CASE n = 2 -> w.hi = 0
      [] n = 4 -> w.hi < Limb
      [] OTHER -> FALSE

to_bytes(w, n) == [i \in 1..n |-> ByteAt(w, i - 1)]

\* the reading of a 4-byte little-endian field, as a RIFF parser does it
FromLittle4(b) == [hi |-> b[3] + 256 * b[4], lo |-> b[1] + 256 * b[2]]

---------------------------------------------------------------------------
(* create_wav_header *)

num_channels == 1
bits_per_sample == 16

RIFF == <<82, 73, 70, 70>>
WAVE == <<87, 65, 86, 69>>
FMT  == <<102, 109, 116, 32>>
DATA == <<100, 97, 116, 97>>

byte_rate(sample_rate) == WDiv(WMul(sample_rate, num_channels * bits_per_sample), 8)

block_align == (num_channels * bits_per_sample) \div 8

\* the first to_bytes call that raises decides; the result is the header or
\* the OverflowError
HeaderRaises(sample_rate, data_size) ==
    \/ ~Fits(WAdd(data_size, 36), 4)
    \/ ~Fits(sample_rate, 4)
    \/ ~Fits(byte_rate(sample_rate), 4)
    \/ ~Fits(data_size, 4)

HeaderBytesRiffOff(sample_rate, data_size) ==
    RIFF \o to_bytes(WAdd(data_size, 44), 4) \o WAVE
      \o FMT \o to_bytes(WInt(16), 4) \o to_bytes(WInt(1), 2)
      \o to_bytes(WInt(num_channels), 2)
      \o to_bytes(sample_rate, 4)
      \o to_bytes(byte_rate(sample_rate), 4)
      \o to_bytes(WInt(block_align), 2)
      \o to_bytes(WInt(bits_per_sample), 2)
      \o DATA \o to_bytes(data_size, 4)

HeaderBytes(sample_rate, data_size) ==
    RIFF \o to_bytes(WAdd(data_size, 36), 4) \o WAVE
      \o FMT \o to_bytes(WInt(16), 4) \o to_bytes(WInt(1), 2)
      \o to_bytes(WInt(num_channels), 2)
      \o to_bytes(sample_rate, 4)
      \o to_bytes(byte_rate(sample_rate), 4)
      \o to_bytes(WInt(block_align), 2)
      \o to_bytes(WInt(bits_per_sample), 2)
      \o DATA \o to_bytes(data_size, 4)

OverflowError == [type |-> "OverflowError", text |-> "int too big to convert"]

create_wav_header(sample_rate, data_size) ==
    IF HeaderRaises(sample_rate, data_size)
    THEN [raised |-> TRUE, exc |-> OverflowError]
    ELSE [raised |-> FALSE, header |-> HeaderBytes(sample_rate, data_size)]

\* wav_data = wav_header + audio_data: the payload is opaque, only its length
\* is kept
WavData(wav_header, data_size) == [header |-> wav_header, payload |-> data_size]

WavLen(wav_data) == WAdd(wav_data.payload, Len(wav_data.header))

---------------------------------------------------------------------------
(* Values of the program *)

None == <<>>
Some(v) == <<v>>

\* the paths tempfile.NamedTemporaryFile can draw
Paths == 1..NumReq

NoFile == [exists |-> FALSE]

\* process configuration read with os.getenv
EnvConfigs ==
    [hume_api_key : BOOLEAN,
     credentials  : {"unset", "undecodable", "valid"},
     bucket_name  : {"", "omi-audio"}]

GoodEnv == [hume_api_key |-> TRUE, credentials |-> "valid", bucket_name |-> "omi-audio"]

HumeKeyError ==
    [type |-> "ValueError", text |-> "HUME_API_KEY environment variable not set"]

CredentialsUnsetError ==
    [type |-> "ValueError",
     text |-> "GOOGLE_APPLICATION_CREDENTIALS_JSON environment variable not set"]

CredentialsDecodeError ==
    [type |-> "ValueError", text |-> "Failed to decode credentials"]

EmptyBodyError ==
    [type |-> "HTTPException", status |-> 400, text |-> "No audio data received"]

OSError(text) == [type |-> "OSError", text |-> text]

\* prediction windows as the remote service returns them
Window1 ==
    [time |-> [begin |-> Some(0), end |-> Some(1)],
     emotions |-> <<[name |-> "Joy", score |-> 7], [name |-> "Anger", score |-> 2]>>]

Window2 ==
    [time |-> [begin |-> Some(1), end |-> None],
     emotions |-> <<[name |-> "Anger", score |-> 5], [name |-> "Calm", score |-> 5]>>]

\* what socket.send_file gives: a result (None, without prosody, or with a
\* list of predictions) or an exception
RemoteResult(result) == [kind |-> "result", result |-> result]
RemoteRaise(text) == [kind |-> "raise", exc |-> [type |-> "ConnectionError", text |-> text]]

NoResult == RemoteResult(None)
NoProsody == RemoteResult(Some([prosody |-> None]))
Prosody(predictions) == RemoteResult(Some([prosody |-> Some([predictions |-> predictions])]))

\* what blob.upload_from_filename does: returns or raises
UploadOk == [kind |-> "ok"]
UploadRaise(text) == [kind |-> "raise", exc |-> [type |-> "Forbidden", text |-> text]]

---------------------------------------------------------------------------
(* analyze_audio_with_hume, after the API key was found *)

FormatPrediction(prediction) ==
    [time |-> [begin |-> prediction.time.begin, end |-> prediction.time.end],
     emotions |-> [i \in 1..Len(prediction.emotions) |->
                     [name |-> prediction.emotions[i].name,
                      score |-> prediction.emotions[i].score]]]

\* the windows appended at the front
FormatPredictionsReversed(predictions) ==
    [i \in 1..Len(predictions) |->
        FormatPrediction(predictions[Len(predictions) + 1 - i])]

FormatPredictions(predictions) ==
    [i \in 1..Len(predictions) |-> FormatPrediction(predictions[i])]

\* result and hasattr(result, 'prosody') and result.prosody
HasProsody(result) == result # None /\ result[1].prosody # None

\* the dict returned: line 148 catches every exception of the session
AnalyzerOutcome(remote) ==
    IF remote.kind = "raise"
    THEN [success |-> FALSE, error |-> remote.exc.text, predictions |-> <<>>]
    ELSE IF HasProsody(remote.result)
    THEN LET formatted_results ==
                 FormatPredictions(remote.result[1].prosody[1].predictions)
         IN  [success |-> TRUE,
              predictions |-> formatted_results,
              total_predictions |-> Len(formatted_results)]
    ELSE [success |-> FALSE,
          error |-> "No prosody predictions returned",
          predictions |-> <<>>]

---------------------------------------------------------------------------
(* upload_to_gcs *)

\* the exception raised before any network call, if any
CredentialsError(e) ==
    CASE e.credentials = "unset"       -> Some(CredentialsUnsetError)
      [] e.credentials = "undecodable" -> Some(CredentialsDecodeError)
      [] OTHER                         -> None

GcsUrl(bucket_name, destination_blob_name) ==
    <<"gs://", bucket_name, "/", destination_blob_name>>

\* gcs_path after lines 214-219: the URL, or None when upload_to_gcs raised
GcsPathAfter(up, bucket_name, filename) ==
    IF up.kind = "ok" THEN Some(GcsUrl(bucket_name, filename)) ELSE None

---------------------------------------------------------------------------
(* the response of the handler *)

EmptyMap == [k \in {} |-> k]

\* response_data of lines 221-236
ResponseDataAlways(q) ==
    [message |-> "Audio processed successfully",
     filename |-> q.filename[1],
     uid |-> q.uid,
     sample_rate |-> q.sample_rate,
     data_size_bytes |-> q.audio_data,
     timestamp |-> q.timestamp[1]]
    @@ ("gcs_path" :> q.gcs_path)
    @@ ("hume_analysis" :> q.hume_results)

ResponseData(q) ==
    [message |-> "Audio processed successfully",
     filename |-> q.filename[1],
     uid |-> q.uid,
     sample_rate |-> q.sample_rate,
     data_size_bytes |-> q.audio_data,
     timestamp |-> q.timestamp[1]]
    @@ (IF q.gcs_path # None THEN "gcs_path" :> q.gcs_path[1] ELSE EmptyMap)
    @@ (IF q.hume_results # None THEN "hume_analysis" :> q.hume_results[1] ELSE EmptyMap)

JSONResponse(content) == [status |-> 200, content |-> content]

\* lines 247-251: an HTTPException passes, anything else becomes a 500 whose
\* detail carries str(e)
ErrorResponse(e) ==
    IF e.type = "HTTPException"
    THEN [status |-> e.status, detail |-> <<e.text>>]
    ELSE [status |-> 500, detail |-> <<"Internal server error: ", e.text>>]

---------------------------------------------------------------------------
(* the scratch file *)

\* tempfile.NamedTemporaryFile opens with O_CREAT | O_EXCL under a random
\* name: any name that no existing file has
TempNamesAny(fs) == Paths

TempNames(fs) == {p \in Paths : ~fs[p].exists}

Exists(fs, path) == fs[path].exists

\* os.remove called without asking os.path.exists: a missing file raises too
RemoveFailsUnchecked(fs, path, o) == ~Exists(fs, path) \/ o.kind = "raise"

\* line 244-245: os.remove is called, and so can raise, only when the file
\* exists
RemoveFails(fs, path, o) == Exists(fs, path) /\ o.kind = "raise"

\* lines 244-245
Release(fs, path) ==
    IF Exists(fs, path) THEN [fs EXCEPT ![path] = NoFile] ELSE fs

---------------------------------------------------------------------------
(* State *)

Requests == 1..NumReq

\* a request before its body is read
IdleReq ==
    [pc |-> "idle",
     audio_data |-> WInt(0), sample_rate |-> WInt(0), uid |-> "",
     analyze_emotion |-> FALSE, save_to_gcs |-> FALSE,
     timestamp |-> None, filename |-> None, wav_data |-> None,
     temp_file_path |-> None, hume_results |-> None, gcs_path |-> None,
     exc |-> None, response |-> None,
     \* the downstream calls in progress
     inflight |-> {},
     \* history: what the request did and what its collaborators answered
     h_framer_calls |-> 0, h_created |-> None, h_write |-> None,
     h_analyzer_calls |-> 0, h_sessions |-> 0, h_hume_remote |-> None,
     h_upload_calls |-> 0, h_upload_attempts |-> 0, h_gcs_remote |-> None,
     h_assembled |-> None, h_remove |-> None]

Ok == [kind |-> "ok"]
Raise(e) == [kind |-> "raise", exc |-> e]

\* the inputs and the collaborators' answers a specification draws from
FullProfile ==
    [inputs |-> [audio_data : {WInt(0), WInt(2), WSub(Two32, 36)},
                 sample_rate : {WInt(16000), Two31},
                 uid : {"u1"},
                 analyze_emotion : BOOLEAN,
                 save_to_gcs : BOOLEAN],
     write  |-> {Ok, Raise(OSError("No space left on device")),
                 Raise(OSError("Input/output error"))},
     remote |-> {NoResult, NoProsody, Prosody(<<>>), Prosody(<<Window1, Window2>>),
                 RemoteRaise("connection refused"), RemoteRaise("timed out")},
     upload |-> {UploadOk, UploadRaise("403 permission denied")},
     remove |-> {Ok, Raise(OSError("Permission denied")),
                 Raise(OSError("Device or resource busy"))}]

\* the concurrent specification keeps the answers that decide what happens to
\* the scratch file and to the names
ConcProfile ==
    [inputs |-> [audio_data : {WInt(0), WInt(2)},
                 sample_rate : {WInt(16000)},
                 uid : {"u1"},
                 analyze_emotion : {TRUE},
                 save_to_gcs : {TRUE}],
     write  |-> {Ok, Raise(OSError("No space left on device")),
                 Raise(OSError("Input/output error"))},
     remote |-> {Prosody(<<Window1, Window2>>)},
     upload |-> {UploadOk},
     remove |-> {Ok, Raise(OSError("Permission denied"))}]

Set(r, q) == req' = [req EXCEPT ![r] = q]

---------------------------------------------------------------------------
(* handle_audio_stream *)

\* line 179: the body arrives
Receive(r, P) ==
    /\ req[r].pc = "idle"
    /\ \E i \in P.inputs :
         Set(r, [req[r] EXCEPT !.pc = "validate",
                               !.audio_data = i.audio_data,
                               !.sample_rate = i.sample_rate,
                               !.uid = i.uid,
                               !.analyze_emotion = i.analyze_emotion,
                               !.save_to_gcs = i.save_to_gcs])
    /\ UNCHANGED <<env, files, clock, frame, scratch>>

\* not audio_data
NeverEmpty(audio_data) == FALSE

IsEmptyBody(audio_data) == WIsZero(audio_data)

\* lines 181-182
Validate(r) ==
    /\ req[r].pc = "validate"
    /\ IF IsEmptyBody(req[r].audio_data)
       THEN Set(r, [req[r] EXCEPT !.pc = "done",
                                  !.response = Some(ErrorResponse(EmptyBodyError))])
       ELSE Set(r, [req[r] EXCEPT !.pc = "frame"])
    /\ UNCHANGED <<env, files, clock, frame, scratch>>

\* f"{uid}_{timestamp}.wav"
Filename(uid, timestamp) == <<uid, "_", timestamp, ".wav">>

\* lines 185-192
Frame(r) ==
    /\ req[r].pc = "frame"
    /\ LET q == req[r]
           wav_header == create_wav_header(q.sample_rate, q.audio_data)
           named == [q EXCEPT !.timestamp = Some(clock),
                              !.filename = Some(Filename(q.uid, clock)),
                              !.h_framer_calls = @ + 1]
       IN  IF wav_header.raised
           THEN Set(r, [named EXCEPT !.pc = "done",
                                     !.response = Some(ErrorResponse(wav_header.exc))])
           ELSE Set(r, [named EXCEPT !.pc = "create",
                                     !.wav_data = Some(WavData(wav_header.header,
                                                               q.audio_data))])
    /\ UNCHANGED <<env, files, clock, frame, scratch>>

\* line 195: the file is created, empty
CreateTemp(r) ==
    /\ req[r].pc = "create"
    /\ \E p \in TempNames(files) :
         /\ files' = [files EXCEPT ![p] = [exists |-> TRUE, owner |-> r, data |-> None]]
         /\ Set(r, [req[r] EXCEPT !.pc = "write", !.h_created = Some(p)])
    /\ UNCHANGED <<env, clock, frame, scratch>>

\* lines 196-197: the write, the close, and the name kept; a failed write
\* leaves the with block and the handler through line 249, the file stays
WriteTemp(r, P) ==
    /\ req[r].pc = "write"
    /\ LET q == req[r]
           p == q.h_created[1]
       IN  \E o \in P.write :
             IF o.kind = "ok"
             THEN /\ files' = [files EXCEPT ![p].data = q.wav_data]
                  /\ Set(r, [q EXCEPT !.pc = "analyze",
                                      !.temp_file_path = Some(p),
                                      !.h_write = Some(o)])
             ELSE /\ files' = files
                  /\ Set(r, [q EXCEPT !.pc = "done",
                                      !.h_write = Some(o),
                                      !.response = Some(ErrorResponse(o.exc))])
    /\ UNCHANGED <<env, clock, frame, scratch>>

\* lines 202-204 and 106-115: the toggle, the API key (its ValueError is raised
\* outside the try of line 110 and leaves the call), the session
AnalyzeStart(r) ==
    /\ req[r].pc = "analyze"
    /\ LET q == req[r]
       IN  IF ~q.analyze_emotion
           THEN Set(r, [q EXCEPT !.pc = "upload"])
           ELSE IF ~env.hume_api_key
           THEN Set(r, [q EXCEPT !.pc = "finally",
                                 !.h_analyzer_calls = @ + 1,
                                 !.exc = Some(HumeKeyError)])
           ELSE Set(r, [q EXCEPT !.pc = "hume_wait",
                                 !.h_analyzer_calls = @ + 1,
                                 !.h_sessions = @ + 1,
                                 !.inflight = @ \cup {"analyzer"}])
    /\ UNCHANGED <<env, files, clock, frame, scratch>>

\* the analyzer called again after a failed call
AnalyzeFinishRetry(r, P) ==
    /\ req[r].pc = "hume_wait"
    /\ LET q == req[r]
       IN  \E answer \in P.remote :
             LET remote == IF Exists(files, q.temp_file_path[1])
                           THEN answer
                           ELSE RemoteRaise("No such file or directory")
             IN  Set(r, [q EXCEPT !.pc = IF remote.kind = "raise" THEN "analyze"
                                                                  ELSE "upload",
                                  !.hume_results = Some(AnalyzerOutcome(remote)),
                                  !.h_hume_remote = Some(remote),
                                  !.inflight = @ \ {"analyzer"}])
    /\ UNCHANGED <<env, files, clock, frame, scratch>>

\* lines 116-154: send_file reads the file and the remote service answers
AnalyzeFinish(r, P) ==
    /\ req[r].pc = "hume_wait"
    /\ LET q == req[r]
       IN  \E answer \in P.remote :
             LET remote == IF Exists(files, q.temp_file_path[1])
                           THEN answer
                           ELSE RemoteRaise("No such file or directory")
             IN  Set(r, [q EXCEPT !.pc = "upload",
                                  !.hume_results = Some(AnalyzerOutcome(remote)),
                                  !.h_hume_remote = Some(remote),
                                  !.inflight = @ \ {"analyzer"}])
    /\ UNCHANGED <<env, files, clock, frame, scratch>>

\* upload_to_gcs called whatever GCS_BUCKET_NAME holds
UploadStartNoBucketCheck(r) ==
    /\ req[r].pc = "upload"
    /\ LET q == req[r]
       IN  IF ~q.save_to_gcs
           THEN Set(r, [q EXCEPT !.pc = "finally"])
           ELSE IF CredentialsError(env) # None
           THEN Set(r, [q EXCEPT !.pc = "finally",
                                 !.h_upload_calls = @ + 1,
                                 !.h_gcs_remote = Some(Raise(CredentialsError(env)[1]))])
           ELSE Set(r, [q EXCEPT !.pc = "gcs_wait",
                                 !.h_upload_calls = @ + 1,
                                 !.h_upload_attempts = @ + 1,
                                 !.inflight = @ \cup {"uploader"}])
    /\ UNCHANGED <<env, files, clock, frame, scratch>>

\* lines 209-215 and 74-88: the toggle, the bucket name, the credentials (a
\* ValueError caught at line 217), the client
UploadStart(r) ==
    /\ req[r].pc = "upload"
    /\ LET q == req[r]
       IN  IF ~q.save_to_gcs \/ env.bucket_name = ""
           THEN Set(r, [q EXCEPT !.pc = "finally"])
           ELSE IF CredentialsError(env) # None
           THEN Set(r, [q EXCEPT !.pc = "finally",
                                 !.h_upload_calls = @ + 1,
                                 !.h_gcs_remote = Some(Raise(CredentialsError(env)[1]))])
           ELSE Set(r, [q EXCEPT !.pc = "gcs_wait",
                                 !.h_upload_calls = @ + 1,
                                 !.h_upload_attempts = @ + 1,
                                 !.inflight = @ \cup {"uploader"}])
    /\ UNCHANGED <<env, files, clock, frame, scratch>>

\* lines 91-93 and 215-219: upload_from_filename reads the file
UploadFinish(r, P) ==
    /\ req[r].pc = "gcs_wait"
    /\ LET q == req[r]
       IN  \E answer \in P.upload :
             LET up == IF Exists(files, q.temp_file_path[1])
                       THEN answer
                       ELSE UploadRaise("No such file or directory")
             IN  Set(r, [q EXCEPT !.pc = "finally",
                                  !.gcs_path = GcsPathAfter(up, env.bucket_name,
                                                            q.filename[1]),
                                  !.h_gcs_remote = Some(up),
                                  !.inflight = @ \ {"uploader"}])
    /\ UNCHANGED <<env, files, clock, frame, scratch>>

\* lines 221-251, entered at the places `from`: the response is assembled
\* (unless an exception is on its way), the finally clause removes the file,
\* and an exception of os.remove replaces whatever was on its way
FinallyFrom(r, P, from) ==
    /\ req[r].pc \in from
    /\ LET q == req[r]
           path == q.temp_file_path[1]
           assembled == IF q.exc = None THEN Some(JSONResponse(ResponseData(q)))
                                        ELSE None
       IN  \E o \in P.remove :
             LET fails == RemoveFails(files, path, o)
                 exc == IF fails THEN Some(o.exc) ELSE q.exc
             IN  /\ files' = IF fails THEN files ELSE Release(files, path)
                 /\ Set(r, [q EXCEPT !.pc = "done",
                                     !.h_assembled = assembled,
                                     !.h_remove = Some(IF fails THEN o ELSE Ok),
                                     !.exc = exc,
                                     !.response =
                                         IF exc # None THEN Some(ErrorResponse(exc[1]))
                                                       ELSE assembled])
    /\ UNCHANGED <<env, clock, frame, scratch>>

\* the finally clause run without waiting for the upload
FinallyEarly(r, P) == FinallyFrom(r, P, {"finally", "gcs_wait"})

Finally(r, P) == FinallyFrom(r, P, {"finally"})

\* time passes between two readings of datetime.utcnow()
Tick ==
    /\ clock < MaxClock
    /\ clock' = clock + 1
    /\ UNCHANGED <<env, files, req, frame, scratch>>

---------------------------------------------------------------------------
(* the framer on its own *)

\* lengths and rates around 0 and around the limits of the 4-byte fields
NearZero == {WInt(n) : n \in 0..EdgeSpan}
Near(w) == {WSub(w, n) : n \in 1..EdgeSpan} \cup {WAdd(w, n) : n \in 0..EdgeSpan}

FrameSizes == NearZero \cup Near(WSub(Two32, 36)) \cup Near(Two32)
FrameRates == (NearZero \ {WInt(0)}) \cup {WInt(8000), WInt(16000)}
                \cup Near(Two31) \cup Near(Two32)

FrameIdle == [pc |-> "idle", sample_rate |-> WInt(0), data_size |-> WInt(0),
              out |-> None, wav_data |-> None]

\* lines 189-192 on the inputs chosen
FrameCall ==
    /\ frame.pc = "call"
    /\ LET out == create_wav_header(frame.sample_rate, frame.data_size)
       IN  frame' = [frame EXCEPT
                       !.pc = "returned",
                       !.out = Some(out),
                       !.wav_data = IF out.raised THEN None
                                    ELSE Some(WavData(out.header, frame.data_size))]
    /\ UNCHANGED <<env, files, clock, req, scratch>>

---------------------------------------------------------------------------
(* the release step on its own *)

\* a small artifact
SmallWav == WavData(HeaderBytes(WInt(16000), WInt(2)), WInt(2))

\* what a path of the storage can hold
FileValues ==
    {NoFile} \cup [exists : {TRUE}, owner : Requests, data : {None, Some(SmallWav)}]

ScratchIdle == [fs |-> [p \in Paths |-> NoFile], path |-> 1, runs |-> <<>>]

\* lines 244-245 run once more on the same path
ReleaseStep(P) ==
    /\ Len(scratch.runs) < MaxReleases
    /\ \E o \in P.remove :
         LET fails == RemoveFails(scratch.fs, scratch.path, o)
             after == IF fails THEN scratch.fs ELSE Release(scratch.fs, scratch.path)
         IN  scratch' = [scratch EXCEPT
                           !.fs = after,
                           !.runs = Append(@, [before |-> scratch.fs,
                                               after |-> after,
                                               raised |-> fails])]
    /\ UNCHANGED <<env, files, clock, req, frame>>

---------------------------------------------------------------------------
(* Specifications *)

Step(r, P) ==
    \/ Receive(r, P)
    \/ Validate(r)
    \/ Frame(r)
    \/ CreateTemp(r)
    \/ WriteTemp(r, P)
    \/ AnalyzeStart(r)
    \/ AnalyzeFinish(r, P)
    \/ UploadStart(r)
    \/ UploadFinish(r, P)
    \/ Finally(r, P)

NoFiles == [p \in Paths |-> NoFile]

\* one request, every input and every answer of the collaborators
Init ==
    /\ env \in EnvConfigs
    /\ files = NoFiles
    /\ clock \in 0..MaxClock
    /\ req = [r \in Requests |-> IdleReq]
    /\ frame = FrameIdle
    /\ scratch = ScratchIdle

Next == Step(1, FullProfile)

Spec == Init /\ [][Next]_vars

\* NumReq requests at once under a complete configuration
InitConc ==
    /\ env = GoodEnv
    /\ files = NoFiles
    /\ clock = 0
    /\ req = [r \in Requests |-> IdleReq]
    /\ frame = FrameIdle
    /\ scratch = ScratchIdle

NextConc == Tick \/ \E r \in Requests : Step(r, ConcProfile)

SpecConc == InitConc /\ [][NextConc]_vars

\* the framer applied to every rate and length of FrameRates and FrameSizes
InitFrame ==
    /\ env = GoodEnv
    /\ files = NoFiles
    /\ clock = 0
    /\ req = [r \in Requests |-> IdleReq]
    /\ \E rate \in FrameRates, size \in FrameSizes :
         frame = [FrameIdle EXCEPT !.pc = "call", !.sample_rate = rate,
                                   !.data_size = size]
    /\ scratch = ScratchIdle

NextFrame == FrameCall

SpecFrame == InitFrame /\ [][NextFrame]_vars

---------------------------------------------------------------------------
(* Properties *)

Done(r) == req[r].pc = "done"

Status(r) == req[r].response[1].status

NonEmpty(r) == req[r].pc # "idle" /\ ~WIsZero(req[r].audio_data)

\* C1: every handler run that created a scratch file has removed it when it
\* completes, whatever the exit path.
C1_ScratchRemovedOnEveryExit ==
    \A r \in Requests :
        (Done(r) /\ req[r].h_created # None) => ~Exists(files, req[r].h_created[1])

\* a configuration error: the API key, the credentials or the bucket name
ConfigError == ~env.hume_api_key \/ env.credentials # "valid" \/ env.bucket_name = ""

\* no fault but the configuration: the write and the removal succeeded
NoOtherFault(r) == req[r].h_write = Some(Ok) /\ req[r].h_remove = Some(Ok)

\* C2: with a non-empty payload and a configuration error (and nothing else
\* going wrong) the request completes with status 200, the analyzer stage has
\* an outcome when it is enabled, and the uploader stage was run when it is
\* enabled and has a bucket.
C2_ConfigErrorsNeverAbort ==
    \A r \in Requests :
        (Done(r) /\ NonEmpty(r) /\ ConfigError /\ NoOtherFault(r)) =>
            /\ Status(r) = 200
            /\ req[r].analyze_emotion => req[r].hume_results # None
            /\ (req[r].save_to_gcs /\ env.bucket_name # "") => req[r].h_upload_calls = 1

BothToggles(r) == req[r].analyze_emotion /\ req[r].save_to_gcs

AnalyzerFailed(r) ==
    req[r].h_hume_remote # None /\ req[r].h_hume_remote[1].kind = "raise"

UploaderFailed(r) ==
    req[r].h_gcs_remote # None /\ req[r].h_gcs_remote[1].kind = "raise"

\* the uploader's outcome as the configuration and the store's answer alone
\* decide it
UploaderAlone(r) ==
    IF env.bucket_name = "" \/ req[r].h_gcs_remote = None THEN None
    ELSE IF req[r].h_gcs_remote[1].kind = "ok"
    THEN Some(<<"gs://", env.bucket_name, "/", req[r].filename[1]>>)
    ELSE None

\* C3: with both toggles on, a failed analyzer call leaves the uploader invoked
\* with the outcome its own answer decides, a failed upload leaves the analyzer
\* outcome in place, and in both cases the request completes with status 200.
C3_FanOutIsolation ==
    \A r \in Requests :
        (Done(r) /\ BothToggles(r)) =>
            /\ AnalyzerFailed(r) =>
                 /\ env.bucket_name # "" => req[r].h_upload_calls = 1
                 /\ req[r].gcs_path = UploaderAlone(r)
                 /\ Status(r) = 200
            /\ UploaderFailed(r) =>
                 /\ req[r].hume_results = Some(AnalyzerOutcome(req[r].h_hume_remote[1]))
                 /\ Status(r) = 200
                 /\ req[r].response[1].content["hume_analysis"] = req[r].hume_results[1]

Has(r, field) == field \in DOMAIN req[r].response[1].content

Stored(r) ==
    /\ req[r].save_to_gcs
    /\ env.bucket_name # ""
    /\ env.credentials = "valid"
    /\ req[r].h_gcs_remote = Some(UploadOk)

C5_EmptyPayloadRejected ==
    \A r \in Requests :
        /\ (req[r].pc \notin {"idle", "validate"} /\ WIsZero(req[r].audio_data)) =>
              /\ Done(r) /\ Status(r) = 400
              /\ req[r].h_framer_calls = 0 /\ req[r].wav_data = None
              /\ req[r].h_created = None
              /\ req[r].h_analyzer_calls = 0
              /\ req[r].h_upload_calls = 0
        /\ (Done(r) /\ Status(r) \in 400..499) => WIsZero(req[r].audio_data)
        /\ (WIsZero(req[r].audio_data) /\ req[r].h_created = None) =>
              \A p \in Paths : files[p].exists => files[p].owner # r

\* C5 witness: a request with an empty payload has completed.
C5_Witness ==
    \E r \in Requests :
        Done(r) /\ WIsZero(req[r].audio_data) /\ Status(r) = 400

SameInputs(a, b) ==
    /\ req[a].audio_data = req[b].audio_data
    /\ req[a].sample_rate = req[b].sample_rate
    /\ req[a].uid = req[b].uid
    /\ req[a].analyze_emotion = req[b].analyze_emotion
    /\ req[a].save_to_gcs = req[b].save_to_gcs

\* the place the exception came from
FaultSite(r) ==
    <<req[r].h_framer_calls, req[r].h_created # None, req[r].h_write # None,
      req[r].h_analyzer_calls, req[r].h_remove # None>>

\* C6: two runs with the same inputs that fail at the same place with a 500,
\* whatever the text of the exception, give the same response.
C6_GenericServerError ==
    \A a, b \in Requests :
        (Done(a) /\ Done(b) /\ Status(a) = 500 /\ Status(b) = 500
           /\ SameInputs(a, b) /\ FaultSite(a) = FaultSite(b))
        => req[a].response = req[b].response

\* C7: when the removal of the scratch file fails after the response was
\* assembled, the request still gives the assembled response.
C7_RemovalFailureSwallowed ==
    \A r \in Requests :
        (Done(r) /\ req[r].h_assembled # None
           /\ req[r].h_remove # None /\ req[r].h_remove[1].kind = "raise")
        => req[r].response = req[r].h_assembled

Returned == frame.pc = "returned"

\* the header was returned, the artifact has data_size + 44 bytes, and the two
\* size fields read little-endian are data_size and 36 + data_size
FramedRight ==
    /\ ~frame.out[1].raised
    /\ Len(frame.out[1].header) = 44
    /\ WavLen(frame.wav_data[1]) = WAdd(frame.data_size, 44)
    /\ FromLittle4(SubSeq(frame.out[1].header, 41, 44)) = frame.data_size
    /\ FromLittle4(SubSeq(frame.out[1].header, 5, 8)) = WAdd(frame.data_size, 36)

\* C8 as stated: for every positive rate and every length the header is returned
\* without raising and frames the payload rightly.
C8_FramedForEveryRateAndLength ==
    (Returned /\ ~WIsZero(frame.sample_rate)) => FramedRight

\* the rate is below 2^31 (its byte rate fits 4 bytes) and the length is at
\* most 2^32 - 37 (36 + length fits 4 bytes)
InRange ==
    /\ ~WIsZero(frame.sample_rate)
    /\ WLess(frame.sample_rate, Two31)
    /\ WLess(WAdd(frame.data_size, 36), Two32)

\* C8 amended: for every rate from 1 to 2^31 - 1 and every length from 0 to
\* 2^32 - 37 the header is returned without raising, the artifact has
\* length + 44 bytes and the size fields are length and 36 + length.
C8_FramedWithinFieldWidth ==
    (Returned /\ InRange) => FramedRight

\* C8 witness: the largest rate and the largest length of the range were framed.
C8_Witness ==
    /\ Returned
    /\ frame.sample_rate = WSub(Two31, 1)
    /\ frame.data_size = WSub(Two32, 37)
    /\ ~frame.out[1].raised

\* C9: while an analyzer or uploader call of a request is in progress its
\* scratch file exists with the request's artifact, and when the request has
\* run its removal no call of it is in progress.
C9_ReleaseAfterCalls ==
    \A r \in Requests :
        /\ req[r].inflight # {} =>
              /\ req[r].temp_file_path # None
              /\ Exists(files, req[r].temp_file_path[1])
              /\ files[req[r].temp_file_path[1]].data = req[r].wav_data
        /\ req[r].h_remove # None => req[r].inflight = {}

\* C9 witness: the analyzer has failed and the upload is in progress.
C9_Witness ==
    \E r \in Requests :
        /\ req[r].inflight = {"uploader"}
        /\ AnalyzerFailed(r)
        /\ Exists(files, req[r].temp_file_path[1])

\* the request has acquired a scratch path and not yet run its release
Holds(r) ==
    /\ req[r].h_created # None
    /\ req[r].pc \in {"write", "analyze", "hume_wait", "upload", "gcs_wait", "finally"}

Written(r) == Holds(r) /\ req[r].pc # "write"

\* C10: two requests in flight never hold the same scratch path, and the file
\* of a request in flight exists, is the one it created and, once written,
\* has the artifact it wrote.
C10_ScratchPathsDisjoint ==
    \A a \in Requests :
        /\ \A b \in Requests \ {a} :
              (Holds(a) /\ Holds(b)) => req[a].h_created # req[b].h_created
        /\ Holds(a) =>
              /\ Exists(files, req[a].h_created[1])
              /\ files[req[a].h_created[1]].owner = a
        /\ Written(a) => files[req[a].h_created[1]].data = req[a].wav_data

\* C10 witness: a request holds its written scratch file while another request
\* has created, used and removed its own.
C10_Witness ==
    \E a, b \in Requests :
        /\ a # b
        /\ Written(a)
        /\ Done(b) /\ req[b].h_remove = Some(Ok) /\ req[b].temp_file_path # None

\* C11: a request with analyze_emotion off never calls the analyzer nor opens
\* a session, and a request with save_to_gcs off or without a bucket name never
\* calls upload_to_gcs (where the credentials are decoded) nor uploads.
C11_SkippedStagesDoNothing ==
    \A r \in Requests :
        /\ (req[r].pc # "idle" /\ ~req[r].analyze_emotion) =>
              /\ req[r].h_analyzer_calls = 0
              /\ req[r].h_sessions = 0
              /\ req[r].h_hume_remote = None
              /\ "analyzer" \notin req[r].inflight
        /\ (req[r].pc # "idle" /\ (~req[r].save_to_gcs \/ env.bucket_name = "")) =>
              /\ req[r].h_upload_calls = 0
              /\ req[r].h_upload_attempts = 0
              /\ req[r].h_gcs_remote = None
              /\ "uploader" \notin req[r].inflight

\* C11 witness: a request with save_to_gcs on and no bucket name, and one with
\* analyze_emotion off, has gone through both stages and completed with 200.
C11_Witness ==
    \E r \in Requests :
        /\ Done(r) /\ Status(r) = 200
        /\ ~req[r].analyze_emotion
        /\ req[r].save_to_gcs /\ env.bucket_name = ""
        /\ env.credentials = "undecodable"

\* the answer of the remote service was a result, not an exception
Answered(r) ==
    req[r].h_hume_remote # None /\ req[r].h_hume_remote[1].kind = "result"

\* the prediction windows of the answer (none when there is no result or no
\* prosody section)
Windows(r) ==
    LET result == req[r].h_hume_remote[1].result
    IN  IF result = None \/ result[1].prosody = None THEN <<>>
        ELSE result[1].prosody[1].predictions

\* C13: when the remote service answers, the analyzer returns success exactly
\* when the answer has at least one prediction window, and otherwise returns
\* the failure dict with the reason that no predictions were returned.
C13_SuccessOnlyWithPredictions ==
    \A r \in Requests :
        (Answered(r) /\ req[r].hume_results # None) =>
            /\ req[r].hume_results[1].success <=> Len(Windows(r)) > 0
            /\ Len(Windows(r)) = 0 =>
                 req[r].hume_results[1].error = "No prosody predictions returned"

\* C14: a successful analysis returns as many predictions as the remote
\* service gave windows, in the same order, each with the same time span and
\* the same (name, score) pairs in the same order, and total_predictions is
\* that number.
C14_PredictionsPreserved ==
    \A r \in Requests :
        (Answered(r) /\ req[r].hume_results # None /\ req[r].hume_results[1].success) =>
            LET got == req[r].hume_results[1].predictions
                sent == Windows(r)
            IN  /\ Len(got) = Len(sent)
                /\ req[r].hume_results[1].total_predictions = Len(sent)
                /\ \A i \in 1..Len(sent) :
                     /\ got[i].time.begin = sent[i].time.begin
                     /\ got[i].time.end = sent[i].time.end
                     /\ Len(got[i].emotions) = Len(sent[i].emotions)
                     /\ \A j \in 1..Len(sent[i].emotions) :
                          /\ got[i].emotions[j].name = sent[i].emotions[j].name
                          /\ got[i].emotions[j].score = sent[i].emotions[j].score

\* C14 witness: an analysis of two windows succeeded.
C14_Witness ==
    \E r \in Requests :
        /\ Answered(r) /\ Len(Windows(r)) = 2
        /\ req[r].hume_results # None /\ req[r].hume_results[1].success
        /\ req[r].hume_results[1].total_predictions = 2

\* C15: a request calls the analyzer at most once, opens at most one session,
\* calls upload_to_gcs at most once and uploads at most once; a request that is
\* done after both calls failed made each exactly once.
C15_NoRetry ==
    \A r \in Requests :
        /\ req[r].h_analyzer_calls <= 1
        /\ req[r].h_sessions <= 1
        /\ req[r].h_upload_calls <= 1
        /\ req[r].h_upload_attempts <= 1
        /\ (AnalyzerFailed(r) /\ req[r].pc # "hume_wait") => "analyzer" \notin req[r].inflight
        /\ (Done(r) /\ AnalyzerFailed(r)) => req[r].h_sessions = 1
        /\ (Done(r) /\ UploaderFailed(r)) => req[r].h_upload_calls = 1

\* C15 witness: a request is done after its analyzer call and its upload both
\* failed.
C15_Witness ==
    \E r \in Requests :
        /\ Done(r)
        /\ AnalyzerFailed(r) /\ UploaderFailed(r)
        /\ req[r].h_sessions = 1 /\ req[r].h_upload_attempts = 1

Named(r) == req[r].filename # None

Archived(r) == req[r].h_gcs_remote = Some(UploadOk) /\ req[r].gcs_path # None

\* C12: two distinct requests of the process have different artifact names,
\* and two requests that both uploaded did not write the same object.
C12_ArtifactNamesDistinct ==
    \A a, b \in Requests :
        a # b =>
            /\ (Named(a) /\ Named(b)) => req[a].filename # req[b].filename
            /\ (Archived(a) /\ Archived(b)) => req[a].gcs_path # req[b].gcs_path

\* the release step on every storage of FileValues and every path
InitRelease ==
    /\ env = GoodEnv
    /\ files = NoFiles
    /\ clock = 0
    /\ req = [r \in Requests |-> IdleReq]
    /\ frame = FrameIdle
    /\ \E fs \in [Paths -> FileValues], path \in Paths :
         scratch = [fs |-> fs, path |-> path, runs |-> <<>>]

NextRelease == ReleaseStep(FullProfile)

SpecRelease == InitRelease /\ [][NextRelease]_vars

\* C16: a release step run on a path whose file is already gone does not raise
\* and leaves the storage as it was, and a release step run after one that
\* removed the file leaves the storage as that one left it.
C16_ReleaseIdempotent ==
    /\ \A i \in 1..Len(scratch.runs) :
         ~Exists(scratch.runs[i].before, scratch.path) =>
             /\ ~scratch.runs[i].raised
             /\ scratch.runs[i].after = scratch.runs[i].before
    /\ \A i \in 2..Len(scratch.runs) :
         ~scratch.runs[i - 1].raised =>
             /\ ~scratch.runs[i].raised
             /\ scratch.runs[i].after = scratch.runs[i - 1].after
             /\ ~Exists(scratch.runs[i].after, scratch.path)

\* C16 witness: the release step removed an existing file and was then run
\* again on the same path.
C16_Witness ==
    /\ Len(scratch.runs) = 2
    /\ Exists(scratch.runs[1].before, scratch.path)
    /\ ~scratch.runs[1].raised
    /\ ~Exists(scratch.runs[2].before, scratch.path)
    /\ ~scratch.runs[2].raised

====
